---------------------------- MODULE Spec2Model ----------------------------
(***************************************************************************)
(* The in-memory banking service of src/main.py: the users dictionary and  *)
(* its four request handlers (get_users, deposit, authenticate,            *)
(* bank_transfer).                                                         *)
(*                                                                         *)
(* Spec        requests are handled one at a time, with any arguments.     *)
(* SpecFinite  the same, the amounts being finite floats only.             *)
(* SpecRace    two requests run concurrently and interleave between the    *)
(*             reads and writes of the handlers.                           *)
(***************************************************************************)
EXTENDS Integers, Sequences

(***************************************************************************)
(* Python floats.  bank_balance and the amounts are Python floats, that    *)
(* is IEEE-754 binary64 values: a 53 bit significand, round to nearest,    *)
(* ties to even, with the two infinities and NaN.  A finite value is kept  *)
(* exactly, as the integer  big * 2^53 + small  with |small| far below     *)
(* 2^52, so that the integers of magnitude below 2^53 (big = 0), which     *)
(* floats add and subtract without rounding, and the integers around the   *)
(* multiples of 2^53, which they round, are both covered.                  *)
(***************************************************************************)
Fin(b, s) == [cls |-> "fin", big |-> b, small |-> s]

Inf == [cls |-> "inf", big |-> 1, small |-> 0]

NegInf == [cls |-> "inf", big |-> -1, small |-> 0]

NaN == [cls |-> "nan", big |-> 0, small |-> 0]

Zero == Fin(0, 0)

\* floor(log2(b)) for b >= 1
Log2(b) == CHOOSE k \in 0..30 : 2^k <= b /\ b < 2^(k+1)

\* The distance between neighbouring floats around big * 2^53 + small, big >= 1:
\* 2^(k+1) in [2^(53+k), 2^(54+k)), and 2^k just below 2^(53+k).
Ulp(b, s) ==
    IF s < 0 /\ b = 2^Log2(b) THEN 2^Log2(b) ELSE 2^(Log2(b) + 1)

\* s rounded to the nearest multiple of q, a tie going to the even multiple
\* (big * 2^53 / q is even, so the significand's parity is that of s \div q).
RoundToMultiple(s, q) ==
    LET f == s \div q
        r == s % q
    IN  IF 2 * r < q THEN q * f
        ELSE IF 2 * r > q THEN q * (f + 1)
        ELSE IF f % 2 = 0 THEN q * f
        ELSE q * (f + 1)

\* The float nearest to the exact value big * 2^53 + small.
Round(b, s) ==
    IF b = 0 THEN Fin(0, s)
    ELSE IF b > 0 THEN Fin(b, RoundToMultiple(s, Ulp(b, s)))
    ELSE Fin(b, -RoundToMultiple(-s, Ulp(-b, -s)))

FNeg(x) == [x EXCEPT !.big = -x.big, !.small = -x.small]

\* x + y
FAdd(x, y) ==
    IF x.cls = "nan" \/ y.cls = "nan" THEN NaN
    ELSE IF x.cls = "inf" THEN (IF y.cls = "inf" /\ y.big # x.big THEN NaN ELSE x)
    ELSE IF y.cls = "inf" THEN y
    ELSE Round(x.big + y.big, x.small + y.small)

\* x - y
FSub(x, y) == FAdd(x, FNeg(y))

\* x < y: false when either is NaN
FLt(x, y) ==
    /\ x.cls # "nan"
    /\ y.cls # "nan"
    /\ LET cx == IF x.cls = "inf" THEN x.big ELSE 0
           cy == IF y.cls = "inf" THEN y.big ELSE 0
       IN  \/ cx < cy
           \/ /\ cx = 0
              /\ cy = 0
              /\ \/ x.big < y.big
                 \/ x.big = y.big /\ x.small < y.small

\* x <= y: false when either is NaN
FLe(x, y) == x.cls # "nan" /\ y.cls # "nan" /\ (FLt(x, y) \/ x = y)


(***************************************************************************)
(* State.  users is the dictionary of main.py.  path, request and response *)
(* are the last request served and its answer; nreq counts the requests    *)
(* served.  pc, treq, tmp and tresp are the handlers in flight of the      *)
(* concurrent system: where each one stands, its request, the balance it   *)
(* last read and its answer.                                               *)
(***************************************************************************)
VARIABLES users, path, request, response, nreq, pc, treq, tmp, tresp

vars == <<users, path, request, response, nreq, pc, treq, tmp, tresp>>

\* The requests served in a run of the model.
MaxRequests == 3

\* The two seed accounts.
SeedUsers ==
    [n \in {"Ali", "Sara"} |->
        IF n = "Ali" THEN [pin |-> 1234, bank_balance |-> Fin(0, 10000)]
        ELSE [pin |-> 4321, bank_balance |-> Fin(0, 15000)]]

\* Request arguments: the two account names and a name that is no account;
\* the two pins, each the wrong pin of the other account, and a pin of nobody.
Names == {"Ali", "Sara", "Nobody"}

Pins == {1234, 4321, 9999}

\* Finite amounts: negative, zero, positive, and 2^55, around which
\* neighbouring floats are 8 apart.
FiniteAmounts == {Fin(0, -500), Zero, Fin(0, 500), Fin(4, 0)}

Amounts == FiniteAmounts \cup {Inf, NaN}

Threads == {1, 2}

\* Python's None: no request yet, no exception raised.
None == [none |-> TRUE]

\* raise HTTPException(status_code=..., detail=...)
HTTPException(status_code, detail) ==
    [status_code |-> status_code, detail |-> detail]

\* return {"name": name, **user}, serialised as a UserDetailsResponse
UserDetailsResponse(name, user) ==
    [status_code |-> 200,
     body |-> [name |-> name, pin |-> user.pin, bank_balance |-> user.bank_balance]]

\* A handler's outcome: the dictionary it leaves and its answer.
Outcome(u, r) == [users |-> u, response |-> r]

\* Faulty variant of _authenticate_user: the pin is not compared.
_authenticate_user_name_only(u, name, pin) ==
    name \in DOMAIN u

_authenticate_user(u, name, pin) ==
    name \in DOMAIN u /\ u[name].pin = pin

get_users(u) == Outcome(u, [status_code |-> 200, body |-> u])

\* Faulty variant of the checks of deposit: a zero amount is let through
\* (< in place of <=).
deposit_validate_zero_allowed(u, req) ==
    IF req.name \notin DOMAIN u
    THEN HTTPException(404, <<"User '", req.name, "' not found.">>)
    ELSE IF FLt(req.amount_to_deposit, Zero)
    THEN HTTPException(400, <<"Deposit amount must be positive.">>)
    ELSE None

\* Faulty variant of the checks of deposit: the amount is checked before the
\* name.
deposit_validate_amount_first(u, req) ==
    IF FLe(req.amount_to_deposit, Zero)
    THEN HTTPException(400, <<"Deposit amount must be positive.">>)
    ELSE IF req.name \notin DOMAIN u
    THEN HTTPException(404, <<"User '", req.name, "' not found.">>)
    ELSE None

\* The checks of deposit (lines 78-83): the HTTPException of the first one
\* that fails, None when both pass.
deposit_validate(u, req) ==
    IF req.name \notin DOMAIN u
    THEN HTTPException(404, <<"User '", req.name, "' not found.">>)
    ELSE IF FLe(req.amount_to_deposit, Zero)
    THEN HTTPException(400, <<"Deposit amount must be positive.">>)
    ELSE None

\* Faulty variant of deposit: the record returned is built before the balance
\* is updated.
deposit_stale_response(u, req) ==
    IF deposit_validate(u, req) # None
    THEN Outcome(u, deposit_validate(u, req))
    ELSE LET u1 == [u EXCEPT ![req.name].bank_balance = FAdd(@, req.amount_to_deposit)]
         IN  Outcome(u1, UserDetailsResponse(req.name, u[req.name]))

deposit(u, req) ==
    IF deposit_validate(u, req) # None
    THEN Outcome(u, deposit_validate(u, req))
    ELSE LET u1 == [u EXCEPT ![req.name].bank_balance = FAdd(@, req.amount_to_deposit)]
         IN  Outcome(u1, UserDetailsResponse(req.name, u1[req.name]))

authenticate(u, req) ==
    IF _authenticate_user(u, req.name, req.pin_number)
    THEN Outcome(u, UserDetailsResponse(req.name, u[req.name]))
    ELSE Outcome(u, HTTPException(401, <<"Invalid credentials">>))

\* The checks of bank_transfer that read no balance (lines 120-135): the
\* HTTPException of the first one that fails, None when all pass.
bank_transfer_validate(u, req) ==
    IF ~_authenticate_user(u, req.sender_name, req.sender_pin)
    THEN HTTPException(401, <<"Invalid sender credentials.">>)
    ELSE IF req.recipients_name \notin DOMAIN u
    THEN HTTPException(404, <<"Recipient '", req.recipients_name, "' not found.">>)
    ELSE IF req.sender_name = req.recipients_name
    THEN HTTPException(400, <<"Sender and recipient cannot be the same person.">>)
    ELSE IF FLe(req.amount_to_transfer, Zero)
    THEN HTTPException(400, <<"Transfer amount must be positive.">>)
    ELSE None

\* if sender["bank_balance"] < request.amount_to_transfer: raise ...
bank_transfer_funds(balance, req) ==
    IF FLt(balance, req.amount_to_transfer)
    THEN HTTPException(400, <<"Insufficient funds for transfer.">>)
    ELSE None

\* Faulty variant of bank_transfer: the sender is debited before the funds
\* check, which then looks at the balance left.
bank_transfer_debit_first(u, req) ==
    IF bank_transfer_validate(u, req) # None
    THEN Outcome(u, bank_transfer_validate(u, req))
    ELSE LET u1 == [u EXCEPT ![req.sender_name].bank_balance =
                                    FSub(@, req.amount_to_transfer)]
             u2 == [u1 EXCEPT ![req.recipients_name].bank_balance =
                                    FAdd(@, req.amount_to_transfer)]
         IN  IF FLt(u1[req.sender_name].bank_balance, Zero)
             THEN Outcome(u1, HTTPException(400, <<"Insufficient funds for transfer.">>))
             ELSE Outcome(u2, UserDetailsResponse(req.recipients_name,
                                                  u2[req.recipients_name]))

\* Faulty variant of bank_transfer: the sender's record is returned.
bank_transfer_returns_sender(u, req) ==
    IF bank_transfer_validate(u, req) # None
    THEN Outcome(u, bank_transfer_validate(u, req))
    ELSE IF bank_transfer_funds(u[req.sender_name].bank_balance, req) # None
    THEN Outcome(u, bank_transfer_funds(u[req.sender_name].bank_balance, req))
    ELSE LET u1 == [u EXCEPT ![req.sender_name].bank_balance =
                                    FSub(@, req.amount_to_transfer)]
             u2 == [u1 EXCEPT ![req.recipients_name].bank_balance =
                                    FAdd(@, req.amount_to_transfer)]
         IN  Outcome(u2, UserDetailsResponse(req.sender_name, u2[req.sender_name]))

\* Faulty variant of bank_transfer: the sender is not debited.
bank_transfer_no_debit(u, req) ==
    IF bank_transfer_validate(u, req) # None
    THEN Outcome(u, bank_transfer_validate(u, req))
    ELSE IF bank_transfer_funds(u[req.sender_name].bank_balance, req) # None
    THEN Outcome(u, bank_transfer_funds(u[req.sender_name].bank_balance, req))
    ELSE LET u2 == [u EXCEPT ![req.recipients_name].bank_balance =
                                    FAdd(@, req.amount_to_transfer)]
         IN  Outcome(u2, UserDetailsResponse(req.recipients_name,
                                             u2[req.recipients_name]))

bank_transfer(u, req) ==
    IF bank_transfer_validate(u, req) # None
    THEN Outcome(u, bank_transfer_validate(u, req))
    ELSE IF bank_transfer_funds(u[req.sender_name].bank_balance, req) # None
    THEN Outcome(u, bank_transfer_funds(u[req.sender_name].bank_balance, req))
    ELSE LET u1 == [u EXCEPT ![req.sender_name].bank_balance =
                                    FSub(@, req.amount_to_transfer)]
             u2 == [u1 EXCEPT ![req.recipients_name].bank_balance =
                                    FAdd(@, req.amount_to_transfer)]
         IN  Outcome(u2, UserDetailsResponse(req.recipients_name,
                                             u2[req.recipients_name]))

\* The request bodies of the three POST endpoints, the amounts drawn from A.
DepositRequest(A) == [name : Names, amount_to_deposit : A]

AuthenticateRequest == [name : Names, pin_number : Pins]

BankTransferRequest(A) ==
    [sender_name : Names, sender_pin : Pins, recipients_name : Names,
     amount_to_transfer : A]

Init ==
    /\ users = SeedUsers
    /\ path = ""
    /\ request = None
    /\ response = None
    /\ nreq = 0
    /\ pc = [t \in Threads |-> "idle"]
    /\ treq = [t \in Threads |-> None]
    /\ tmp = [t \in Threads |-> Zero]
    /\ tresp = [t \in Threads |-> None]

\* One request served from start to end: the route, the body, the outcome.
Serve(p, req, out) ==
    /\ nreq < MaxRequests
    /\ nreq' = nreq + 1
    /\ path' = p
    /\ request' = req
    /\ users' = out.users
    /\ response' = out.response
    /\ UNCHANGED <<pc, treq, tmp, tresp>>

GetUsers == Serve("/users", None, get_users(users))

Deposit(A) ==
    \E req \in DepositRequest(A) : Serve("/deposit", req, deposit(users, req))

Authenticate ==
    \E req \in AuthenticateRequest :
        Serve("/authenticate", req, authenticate(users, req))

BankTransfer(A) ==
    \E req \in BankTransferRequest(A) :
        Serve("/bank-transfer", req, bank_transfer(users, req))

Next ==
    \/ GetUsers
    \/ Deposit(Amounts)
    \/ Authenticate
    \/ BankTransfer(Amounts)

Spec == Init /\ [][Next]_vars

NextFinite ==
    \/ GetUsers
    \/ Deposit(FiniteAmounts)
    \/ Authenticate
    \/ BankTransfer(FiniteAmounts)

SpecFinite == Init /\ [][NextFinite]_vars


(***************************************************************************)
(* The concurrent system.  The handlers are plain functions, which the     *)
(* framework runs on worker threads; nothing guards users.  Each thread    *)
(* serves one request, and another thread may run between any two of its   *)
(* steps: the checks, the funds check, and the read and the write of each  *)
(* "balance -= amount" and "balance += amount".                            *)
(***************************************************************************)
RaceTransfers ==
    [sender_name : {"Ali"}, sender_pin : {1234, 9999}, recipients_name : {"Sara"},
     amount_to_transfer : {Fin(0, 5000), Fin(0, 6000), Fin(0, 12000)}]

RaceDeposits == [name : {"Ali"}, amount_to_deposit : {Zero, Fin(0, 500)}]

RaceRequests ==
    [path : {"/bank-transfer"}, body : RaceTransfers]
        \cup [path : {"/deposit"}, body : RaceDeposits]

InitRace ==
    /\ users = SeedUsers
    /\ path = ""
    /\ request = None
    /\ response = None
    /\ nreq = 0
    /\ pc = [t \in Threads |-> "start"]
    /\ treq = [t \in Threads |-> None]
    /\ tmp = [t \in Threads |-> Zero]
    /\ tresp = [t \in Threads |-> None]

\* Thread t moves on to step s.
Goto(t, s) == pc' = [pc EXCEPT ![t] = s]

\* Thread t ends with response r.
Respond(t, r) == tresp' = [tresp EXCEPT ![t] = r] /\ Goto(t, "done")

\* A request arrives and is handed to thread t.
Accept(t) ==
    /\ pc[t] = "start"
    /\ \E r \in RaceRequests : treq' = [treq EXCEPT ![t] = r]
    /\ Goto(t, "validate")
    /\ UNCHANGED <<users, path, request, response, nreq, tmp, tresp>>

\* bank_transfer, lines 120-135
TransferValidate(t) ==
    /\ pc[t] = "validate"
    /\ treq[t].path = "/bank-transfer"
    /\ IF bank_transfer_validate(users, treq[t].body) # None
       THEN Respond(t, bank_transfer_validate(users, treq[t].body))
       ELSE Goto(t, "funds") /\ UNCHANGED tresp
    /\ UNCHANGED <<users, path, request, response, nreq, treq, tmp>>

\* bank_transfer, lines 138-139
TransferFunds(t) ==
    /\ pc[t] = "funds"
    /\ LET err == bank_transfer_funds(users[treq[t].body.sender_name].bank_balance,
                                      treq[t].body)
       IN  IF err # None
           THEN Respond(t, err)
           ELSE Goto(t, "debit_read") /\ UNCHANGED tresp
    /\ UNCHANGED <<users, path, request, response, nreq, treq, tmp>>

\* bank_transfer, line 142: the read of sender["bank_balance"]
DebitRead(t) ==
    /\ pc[t] = "debit_read"
    /\ tmp' = [tmp EXCEPT ![t] = users[treq[t].body.sender_name].bank_balance]
    /\ Goto(t, "debit_write")
    /\ UNCHANGED <<users, path, request, response, nreq, treq, tresp>>

\* Faulty variant of DebitWrite: the amount is added to the sender's balance.
DebitWrite_adds(t) ==
    /\ pc[t] = "debit_write"
    /\ users' = [users EXCEPT ![treq[t].body.sender_name].bank_balance =
                                  FAdd(tmp[t], treq[t].body.amount_to_transfer)]
    /\ pc' = [pc EXCEPT ![t] = "credit_read"]
    /\ UNCHANGED <<path, request, response, nreq, treq, tmp, tresp>>

\* bank_transfer, line 142: the write of sender["bank_balance"]
DebitWrite(t) ==
    /\ pc[t] = "debit_write"
    /\ users' = [users EXCEPT ![treq[t].body.sender_name].bank_balance =
                                  FSub(tmp[t], treq[t].body.amount_to_transfer)]
    /\ Goto(t, "credit_read")
    /\ UNCHANGED <<path, request, response, nreq, treq, tmp, tresp>>

\* bank_transfer, line 143: the read of recipient["bank_balance"]
CreditRead(t) ==
    /\ pc[t] = "credit_read"
    /\ tmp' = [tmp EXCEPT ![t] = users[treq[t].body.recipients_name].bank_balance]
    /\ Goto(t, "credit_write")
    /\ UNCHANGED <<users, path, request, response, nreq, treq, tresp>>

\* bank_transfer, line 143: the write of recipient["bank_balance"]
CreditWrite(t) ==
    /\ pc[t] = "credit_write"
    /\ users' = [users EXCEPT ![treq[t].body.recipients_name].bank_balance =
                                  FAdd(tmp[t], treq[t].body.amount_to_transfer)]
    /\ Goto(t, "transfer_return")
    /\ UNCHANGED <<path, request, response, nreq, treq, tmp, tresp>>

\* bank_transfer, line 146
TransferReturn(t) ==
    /\ pc[t] = "transfer_return"
    /\ Respond(t, UserDetailsResponse(treq[t].body.recipients_name,
                                      users[treq[t].body.recipients_name]))
    /\ UNCHANGED <<users, path, request, response, nreq, treq, tmp>>

\* deposit, lines 78-83
DepositValidate(t) ==
    /\ pc[t] = "validate"
    /\ treq[t].path = "/deposit"
    /\ IF deposit_validate(users, treq[t].body) # None
       THEN Respond(t, deposit_validate(users, treq[t].body))
       ELSE Goto(t, "deposit_read") /\ UNCHANGED tresp
    /\ UNCHANGED <<users, path, request, response, nreq, treq, tmp>>

\* deposit, line 85: the read of user["bank_balance"]
DepositRead(t) ==
    /\ pc[t] = "deposit_read"
    /\ tmp' = [tmp EXCEPT ![t] = users[treq[t].body.name].bank_balance]
    /\ Goto(t, "deposit_write")
    /\ UNCHANGED <<users, path, request, response, nreq, treq, tresp>>

\* deposit, line 85: the write of user["bank_balance"]
DepositWrite(t) ==
    /\ pc[t] = "deposit_write"
    /\ users' = [users EXCEPT ![treq[t].body.name].bank_balance =
                                  FAdd(tmp[t], treq[t].body.amount_to_deposit)]
    /\ Goto(t, "deposit_return")
    /\ UNCHANGED <<path, request, response, nreq, treq, tmp, tresp>>

\* deposit, line 87
DepositReturn(t) ==
    /\ pc[t] = "deposit_return"
    /\ Respond(t, UserDetailsResponse(treq[t].body.name, users[treq[t].body.name]))
    /\ UNCHANGED <<users, path, request, response, nreq, treq, tmp>>

NextRace ==
    \E t \in Threads :
        \/ Accept(t)
        \/ TransferValidate(t)
        \/ TransferFunds(t)
        \/ DebitRead(t)
        \/ DebitWrite(t)
        \/ CreditRead(t)
        \/ CreditWrite(t)
        \/ TransferReturn(t)
        \/ DepositValidate(t)
        \/ DepositRead(t)
        \/ DepositWrite(t)
        \/ DepositReturn(t)

SpecRace == InitRace /\ [][NextRace]_vars


(***************************************************************************)
(* The claims.  Comparisons and sums of balances and amounts are Python's: *)
(* FLt, FLe, FAdd, FSub.                                                   *)
(***************************************************************************)
\* x > y and x >= y, as Python evaluates them
FGt(x, y) == FLt(y, x)

FGe(x, y) == FLe(y, x)

\* The error kinds of the specification, read off a response.
ErrorKind(resp) ==
    IF resp.status_code = 200 THEN "none"
    ELSE IF resp.status_code = 401 THEN "Unauthorized"
    ELSE IF resp.status_code = 404 THEN "NotFound"
    ELSE IF resp.detail = <<"Sender and recipient cannot be the same person.">>
    THEN "InvalidOperation"
    ELSE IF resp.detail \in {<<"Deposit amount must be positive.">>,
                             <<"Transfer amount must be positive.">>}
    THEN "InvalidAmount"
    ELSE IF resp.detail = <<"Insufficient funds for transfer.">>
    THEN "InsufficientFunds"
    ELSE "other"

\* The five checks of a transfer as the specification words them, in its order:
\* the error of the first that fails, "none" when all pass.
SpecifiedTransferError(u, req) ==
    IF ~(req.sender_name \in DOMAIN u /\ u[req.sender_name].pin = req.sender_pin)
    THEN "Unauthorized"
    ELSE IF req.recipients_name \notin DOMAIN u THEN "NotFound"
    ELSE IF req.sender_name = req.recipients_name THEN "InvalidOperation"
    ELSE IF ~FGt(req.amount_to_transfer, Zero) THEN "InvalidAmount"
    ELSE IF ~FGe(u[req.sender_name].bank_balance, req.amount_to_transfer)
    THEN "InsufficientFunds"
    ELSE "none"

\* sum(u["bank_balance"] for u in users.values())
Total(u) == FAdd(FAdd(Zero, u["Ali"].bank_balance), u["Sara"].bank_balance)

\* A float that is an integer of magnitude below 2^53: sums and differences
\* of such floats that stay in that range are exact.
IsExact(x) == x.cls = "fin" /\ x.big = 0

\* C1 (as stated): requests handled one at a time, every balance is >= 0 in
\* every reachable state.
C1_BalancesNonNegative ==
    \A n \in DOMAIN users : FGe(users[n].bank_balance, Zero)

\* What does hold of the balances in Spec: none is ever below zero; one that
\* is not >= 0 is NaN.
BalancesNeverBelowZero ==
    \A n \in DOMAIN users : ~FLt(users[n].bank_balance, Zero)

\* C2 (as stated): a transfer that fails one of the five checks (sender
\* authenticates, recipient exists, names differ, amount > 0, sender balance
\* >= amount) reports the error of the first failing check in that order.
C2_FirstFailingCheck ==
    [][path' = "/bank-transfer"
        => (SpecifiedTransferError(users, request') # "none"
              => ErrorKind(response') = SpecifiedTransferError(users, request'))]_vars

\* C3: an operation that ends in an error leaves the whole mapping (names, pins,
\* balances) as it was before the call.
C3_ErrorLeavesUsersUnchanged ==
    [][(path' \in {"/deposit", "/authenticate", "/bank-transfer"}
          /\ response'.status_code # 200)
        => users' = users]_vars

\* C3 witness: a transfer of more than the sender's balance was refused with
\* InsufficientFunds.
C3_Witness ==
    /\ path = "/bank-transfer"
    /\ ErrorKind(response) = "InsufficientFunds"
    /\ request.amount_to_transfer = Fin(4, 0)
    /\ users = SeedUsers

\* C4: a transfer that passes all five checks succeeds, debits the sender by the
\* amount, credits the recipient by the amount, changes no pin and no other
\* account, and returns the recipient's record with its new balance; from the
\* seed state, 500 from Ali to Sara returns Sara with 15500 and leaves Ali 9500.
C4_TransferEffect ==
    [][(path' = "/bank-transfer"
          /\ SpecifiedTransferError(users, request') = "none")
        => LET s == request'.sender_name
               r == request'.recipients_name
               a == request'.amount_to_transfer
           IN  /\ DOMAIN users' = DOMAIN users
               /\ users'[s].bank_balance = FSub(users[s].bank_balance, a)
               /\ users'[r].bank_balance = FAdd(users[r].bank_balance, a)
               /\ \A n \in DOMAIN users : users'[n].pin = users[n].pin
               /\ \A n \in DOMAIN users \ {s, r} : users'[n] = users[n]
               /\ response' = [status_code |-> 200,
                               body |-> [name |-> r, pin |-> users[r].pin,
                                         bank_balance |-> users'[r].bank_balance]]
               /\ (users = SeedUsers /\ s = "Ali" /\ a = Fin(0, 500))
                    => /\ response'.body.bank_balance = Fin(0, 15500)
                       /\ users'["Ali"].bank_balance = Fin(0, 9500)]_vars

\* C4 witness: the transfer of 500 from Ali to Sara from the seed state.
C4_Witness ==
    /\ nreq = 1
    /\ path = "/bank-transfer"
    /\ request = [sender_name |-> "Ali", sender_pin |-> 1234,
                  recipients_name |-> "Sara", amount_to_transfer |-> Fin(0, 500)]
    /\ response.status_code = 200
    /\ response.body = [name |-> "Sara", pin |-> 4321, bank_balance |-> Fin(0, 15500)]
    /\ users["Ali"].bank_balance = Fin(0, 9500)

\* C5: deposit with an existing name and amount > 0 sets the balance to
\* old balance + amount, returns that account's record with the new balance,
\* and leaves its pin and every other account unchanged.
C5_DepositEffect ==
    [][(path' = "/deposit"
          /\ request'.name \in DOMAIN users
          /\ FGt(request'.amount_to_deposit, Zero))
        => LET n == request'.name
           IN  /\ DOMAIN users' = DOMAIN users
               /\ users'[n].bank_balance =
                      FAdd(users[n].bank_balance, request'.amount_to_deposit)
               /\ users'[n].pin = users[n].pin
               /\ \A m \in DOMAIN users \ {n} : users'[m] = users[m]
               /\ response' = [status_code |-> 200,
                               body |-> [name |-> n, pin |-> users[n].pin,
                                         bank_balance |-> users'[n].bank_balance]]]_vars

\* C5 witness: 500 was deposited on Sara's seed balance.
C5_Witness ==
    /\ path = "/deposit"
    /\ request = [name |-> "Sara", amount_to_deposit |-> Fin(0, 500)]
    /\ response.status_code = 200
    /\ response.body.bank_balance = Fin(0, 15500)
    /\ users["Sara"].bank_balance = Fin(0, 15500)
    /\ users["Ali"] = SeedUsers["Ali"]

\* C6 (as stated): for all amount <= 0, deposit fails with InvalidAmount (400),
\* whatever the name is.
C6_NonPositiveIsInvalidAmount ==
    (path = "/deposit" /\ FLe(request.amount_to_deposit, Zero))
        => response = HTTPException(400, <<"Deposit amount must be positive.">>)

\* C6 (amended): for all amount <= 0, deposit fails: with InvalidAmount (400)
\* when the name is an account, with NotFound (404) when it is not.
C6_NonPositiveFails ==
    (path = "/deposit" /\ FLe(request.amount_to_deposit, Zero))
        => IF request.name \in DOMAIN users
           THEN response = HTTPException(400, <<"Deposit amount must be positive.">>)
           ELSE ErrorKind(response) = "NotFound"

\* C6 witness: a deposit of zero on an account was refused with InvalidAmount.
C6_Witness ==
    /\ path = "/deposit"
    /\ request = [name |-> "Ali", amount_to_deposit |-> Zero]
    /\ ErrorKind(response) = "InvalidAmount"

\* C7: for every name that is no account, deposit fails with NotFound (404),
\* whatever the amount is.
C7_UnknownNameNotFound ==
    (path = "/deposit" /\ request.name \notin DOMAIN users)
        => response = HTTPException(404, <<"User '", request.name, "' not found.">>)

\* C7 witness: a deposit of a negative amount on an unknown name got NotFound.
C7_Witness ==
    /\ path = "/deposit"
    /\ request = [name |-> "Nobody", amount_to_deposit |-> Fin(0, -500)]
    /\ response.status_code = 404

\* C8: authenticate succeeds, returning the account's record, iff the name is
\* an account and the pin is its pin; every failure is the same 401 response,
\* unknown name or wrong pin; the mapping is never changed.
C8_Authenticate ==
    [][path' = "/authenticate"
        => LET n == request'.name
               ok == n \in DOMAIN users /\ users[n].pin = request'.pin_number
           IN  /\ users' = users
               /\ ok <=> response'.status_code = 200
               /\ ok => response'.body = [name |-> n, pin |-> users[n].pin,
                                          bank_balance |-> users[n].bank_balance]
               /\ ~ok => response' = HTTPException(401, <<"Invalid credentials">>)]_vars

\* C8 witness: a wrong pin for an existing account was refused.
C8_Witness ==
    /\ path = "/authenticate"
    /\ request = [name |-> "Ali", pin_number |-> 9999]
    /\ response.status_code = 401

\* Both threads have served a transfer from Ali to Sara, each of an amount
\* within Ali's seed balance, the two together exceeding it, and both succeeded.
BothOverdrawingTransfersDone ==
    /\ \A t \in Threads :
          /\ pc[t] = "done"
          /\ treq[t].path = "/bank-transfer"
          /\ tresp[t].status_code = 200
          /\ FLe(treq[t].body.amount_to_transfer, SeedUsers["Ali"].bank_balance)
    /\ FGt(FAdd(treq[1].body.amount_to_transfer, treq[2].body.amount_to_transfer),
           SeedUsers["Ali"].bank_balance)

\* C9: when two transfers from the same sender, each within the balance but
\* together exceeding it, interleave and both pass the funds check, the
\* balances are inconsistent: the sender's balance is negative, or it shows only
\* one of the two debits (the other update is lost).
C9_RaceInconsistent ==
    BothOverdrawingTransfersDone
        => \/ users["Ali"].bank_balance =
                  FSub(FSub(SeedUsers["Ali"].bank_balance,
                            treq[1].body.amount_to_transfer),
                       treq[2].body.amount_to_transfer)
              /\ FLt(users["Ali"].bank_balance, Zero)
           \/ \E t \in Threads :
                  users["Ali"].bank_balance =
                      FSub(SeedUsers["Ali"].bank_balance,
                           treq[t].body.amount_to_transfer)

\* C9 witness: both transfers succeeded and the sender's balance is negative.
C9_Witness ==
    BothOverdrawingTransfersDone /\ FLt(users["Ali"].bank_balance, Zero)

\* C9, the other outcome: both transfers succeeded and one credit of the
\* recipient is lost.
C9_LostUpdate ==
    /\ BothOverdrawingTransfersDone
    /\ \E t \in Threads :
          users["Sara"].bank_balance =
              FAdd(SeedUsers["Sara"].bank_balance, treq[t].body.amount_to_transfer)

ExactStep == \A n \in DOMAIN users :
    IsExact(users[n].bank_balance) /\ IsExact(users'[n].bank_balance)

==========================================================================
